---- MODULE Spec2Model ----
(***************************************************************************)
(* Model of the FEthink AI-ethics automarker: the Express server (the      *)
(* session cookie, /api/unlock, /api/mark, /api/logout and the             *)
(* deterministic marker markEthicsResponse) and the helpers of the browser *)
(* client that the server's contract depends on (wc, the answer box).      *)
(*                                                                         *)
(* A JavaScript string is modelled as a sequence of one-character strings, *)
(* so that trim, split, toLowerCase, includes and the action-marker        *)
(* regular expression are computed character by character.  Fixed texts    *)
(* that the program only passes around (messages, notes, the model         *)
(* answer) are TLA+ strings; their non-ASCII punctuation (en dash, em      *)
(* dash, curly apostrophe, the grid's status glyphs) is written in ASCII.  *)
(***************************************************************************)
EXTENDS Integers, Sequences, FiniteSets, TLC

VARIABLES
  answerText,     \* client: the value of the answer box (answerTextEl.value)
  wordCountBox,   \* client: the number shown by updateWordCount
  typed,          \* which phrases of the vocabulary the learner has typed
  filler,         \* how many filler words the learner has typed
  out,            \* the last call of a marker: its argument, locals and result
  now,            \* server: Math.floor(Date.now() / 1000)
  ticks,          \* how many times the clock has advanced
  jar,            \* browser: the stored session cookie, or NoCookie
  issued,         \* history: the cookies set by setSessionCookie, with the code submitted
  resp            \* the last request handled by the server and its response

vars == <<answerText, wordCountBox, typed, filler, out, now, ticks, jar, issued, resp>>

---------------------------------------------------------------------------
(* JavaScript values *)

\* A field that may hold null is <<>> when it holds null and <<v>> when it
\* holds the value v, so that null differs from 0, "" and the empty array
Null == <<>>
Some(v) == <<v>>
Value(field) == field[1]

\* the object r has no property k, or the property holds null
NullOrAbsent(r, k) == k \notin DOMAIN r \/ r[k] = Null

Min(S) == CHOOSE x \in S : \A y \in S : x <= y
Max(S) == CHOOSE x \in S : \A y \in S : x >= y

\* Math.max(0, Math.min(10, score))
Clamp(lo, hi, x) == IF x < lo THEN lo ELSE IF x > hi THEN hi ELSE x

---------------------------------------------------------------------------
(* Strings as sequences of characters *)

UpperCase == <<"A","B","C","D","E","F","G","H","I","J","K","L","M",
               "N","O","P","Q","R","S","T","U","V","W","X","Y","Z">>
LowerCase == <<"a","b","c","d","e","f","g","h","i","j","k","l","m",
               "n","o","p","q","r","s","t","u","v","w","x","y","z">>
Digits == {"0","1","2","3","4","5","6","7","8","9"}

ToLowerMap == [c \in {UpperCase[i] : i \in 1..26} |->
                 LowerCase[CHOOSE i \in 1..26 : UpperCase[i] = c]]

toLowerChar(c) == IF c \in DOMAIN ToLowerMap THEN ToLowerMap[c] ELSE c

\* String.prototype.toLowerCase
toLowerCase(s) == <<>> \o [i \in 1..Len(s) |-> toLowerChar(s[i])]

\* the characters matched by \s and stripped by trim (those the model types)
SpaceChars == {" ", "\n", "\t", "\r"}

IsSpace(c) == c \in SpaceChars

\* the characters matched by \w
WordChars ==
  {UpperCase[i] : i \in 1..26} \cup {LowerCase[i] : i \in 1..26} \cup Digits \cup {"_"}

IsWordChar(c) == c \in WordChars

\* String.prototype.trim
trim(s) ==
  LET keep == {i \in 1..Len(s) : ~IsSpace(s[i])}
  IN IF keep = {} THEN <<>> ELSE SubSeq(s, Min(keep), Max(keep))

\* String.prototype.split(/\s+/): the pieces between the maximal runs of
\* whitespace, keyed by the position where each piece starts (so in text
\* order).  A separator at the very start or end leaves an empty piece there,
\* and the empty string splits into one empty piece.
PieceStarts(s) ==
  {1} \cup {p \in 2..(Len(s) + 1) : IsSpace(s[p - 1]) /\ (p = Len(s) + 1 \/ ~IsSpace(s[p]))}

PieceEnd(s, p) ==
  CHOOSE q \in p..(Len(s) + 1) :
    /\ q = Len(s) + 1 \/ IsSpace(s[q])
    /\ \A j \in p..(q - 1) : ~IsSpace(s[j])

splitWhitespace(s) == [p \in PieceStarts(s) |-> SubSeq(s, p, PieceEnd(s, p) - 1)]

\* Array.prototype.filter(Boolean).length on an array of strings
CountNonEmpty(pieces) == Cardinality({p \in DOMAIN pieces : pieces[p] # <<>>})

\* String.prototype.includes: the empty string is included in every string
includes(t, n) ==
  \/ n = <<>>
  \/ \E i \in 1..(Len(t) - Len(n) + 1) :
       t[i] = n[1] /\ \A j \in 2..Len(n) : t[i + j - 1] = n[j]

---------------------------------------------------------------------------
(* Helpers of the server (part_001) and of the client (part_000) *)

CLAMP_MAX == 6000
MIN_WORDS_GATE == 50
TARGET_MIN_WORDS == 100
TARGET_MAX_WORDS == 250
MAX_SCORE == 10

\* clampStr(s, max): String(s || "").slice(0, max)
clampStr(s, max) == SubSeq(s, 1, IF Len(s) < max THEN Len(s) ELSE max)

\* wordCount as it would be with split(" ") and no filter: every whitespace
\* character left after the trim starts a new word
wordCount_SplitsOnEachSpace(text) ==
  LET t == trim(text)
  IN IF t = <<>> THEN 0 ELSE 1 + Cardinality({i \in 1..Len(t) : IsSpace(t[i])})

\* server: trim, 0 when nothing is left, else split(/\s+/).filter(Boolean).length
wordCount(text) ==
  LET t == trim(text)
  IN IF t = <<>> THEN 0 ELSE CountNonEmpty(splitWhitespace(t))

\* client: the same computation, written again in the page's script
wc(text) ==
  LET t == trim(text)
  IN IF t = <<>> THEN 0 ELSE CountNonEmpty(splitWhitespace(t))

\* hasAny(text, needles): lower-case the text, then needles.some(n => t.includes(n))
hasAny(text, needles) ==
  LET t == toLowerCase(text)
  IN \E k \in 1..Len(needles) : includes(t, needles[k])

\* statusFromLevel(level)
statusFromLevel(level) ==
  IF level >= 2 THEN "[v] Secure"
  ELSE IF level = 1 THEN "[~] Developing"
  ELSE "[x] Missing"

\* tagStatus(level)
tagStatus(level) ==
  IF level >= 2 THEN "ok"
  ELSE IF level = 1 THEN "mid"
  ELSE "bad"

---------------------------------------------------------------------------
(* Fixed content *)

MODEL_ANSWER ==
  "1. Key ethical or legal failures\n\nOne major failure was the use of facial recognition without clear public consent or transparency. Residents were not properly informed about how their data would be collected or used. A second failure was the lack of sufficient testing for bias and accuracy before deployment, which increased the risk of misidentification.\n\n2. Why these failures mattered\n\nThese failures mattered because facial recognition can directly affect people's rights and wellbeing. Individuals could be wrongly identified, questioned, or monitored, causing stress and harm. The lack of transparency also damaged public trust, as people felt watched rather than protected. When AI systems are introduced without openness or safeguards, they risk reinforcing unfairness and discrimination, particularly for certain groups.\n\n3. What should have been done differently\n\nFirst, the council should have completed a Data Protection Impact Assessment (DPIA) and clearly explained the system to the public, including how data would be stored and protected. Second, the system should have been independently tested for bias and accuracy before use, with clear limits on where and when it could operate. These steps would have supported fairer, more responsible use of AI."

FRAMEWORK ==
  [
    gdpr |-> [expectation |-> "UK GDPR Article 5 - Lawfulness, fairness and transparency (data protection principles).",
           case |-> "SmartTown's use of biometric data without clear public transparency or lawful basis shows what can go wrong when personal data is processed without clear safeguards."],
    unesco |-> [expectation |-> "UNESCO Recommendation on the Ethics of Artificial Intelligence (adopted 2021) - human rights, dignity, transparency and fairness across the AI lifecycle.",
             case |-> "The case illustrates how facial recognition can undermine rights and dignity when it is not transparent, not accountable, or produces biased outcomes."],
    ofsted |-> [expectation |-> "Ofsted - expectations for responsible use of technology/AI: ethical, safe, transparent practice and management of risks (e.g., bias, fairness, data protection).",
             case |-> "SmartTown lacked transparency and safeguards, highlighting why organisations must evaluate risks and ensure AI is used responsibly and fairly."],
    jisc |-> [expectation |-> "Jisc - principles for responsible AI use in education: fair, safe, accountable and transparent deployment.",
           case |-> "The case shows why risk assessment, fairness checks, and clear governance matter before deploying AI that affects people."]
  ]

\* part_001: the rubric tables
FAILURE_THEMES ==
  <<
    [key |-> "consent/transparency",
     hits |-> << <<"c","o","n","s","e","n","t">>,
                <<"t","r","a","n","s","p","a","r","e","n","t">>,
                <<"t","r","a","n","s","p","a","r","e","n","c","y">>,
                <<"i","n","f","o","r","m","e","d">>,
                <<"n","o","t","i","c","e">>,
                <<"p","u","b","l","i","c"," ","i","n","f","o","r","m","e","d">> >> ],
    [key |-> "gdpr/lawful basis",
     hits |-> << <<"g","d","p","r">>,
                <<"l","a","w","f","u","l">>,
                <<"l","a","w","f","u","l"," ","b","a","s","i","s">>,
                <<"d","a","t","a"," ","p","r","o","t","e","c","t","i","o","n">>,
                <<"d","p","a">>,
                <<"p","r","i","v","a","c","y">> >> ],
    [key |-> "bias/fairness",
     hits |-> << <<"b","i","a","s">>,
                <<"b","i","a","s","e","d">>,
                <<"f","a","i","r">>,
                <<"f","a","i","r","n","e","s","s">>,
                <<"d","i","s","c","r","i","m","i","n">>,
                <<"e","q","u","a","l">> >> ],
    [key |-> "accuracy/misidentification",
     hits |-> << <<"a","c","c","u","r">>,
                <<"m","i","s","i","d","e","n","t","i","f">>,
                <<"f","a","l","s","e"," ","p","o","s","i","t","i","v","e">>,
                <<"f","a","l","s","e"," ","n","e","g","a","t","i","v","e">>,
                <<"w","r","o","n","g","l","y">> >> ],
    [key |-> "security/storage",
     hits |-> << <<"s","e","c","u","r","e">>,
                <<"s","e","c","u","r","i","t","y">>,
                <<"s","t","o","r","e","d">>,
                <<"s","t","o","r","a","g","e">>,
                <<"b","r","e","a","c","h">>,
                <<"a","c","c","e","s","s"," ","c","o","n","t","r","o","l">>,
                <<"e","n","c","r","y","p","t","i","o","n">> >> ],
    [key |-> "dpia/governance",
     hits |-> << <<"d","p","i","a">>,
                <<"i","m","p","a","c","t"," ","a","s","s","e","s","s","m","e","n","t">>,
                <<"g","o","v","e","r","n","a","n","c","e">>,
                <<"o","v","e","r","s","i","g","h","t">>,
                <<"a","u","d","i","t">> >> ]
  >>

REC_THEMES ==
  <<
    << <<"d","p","i","a">>,
       <<"i","m","p","a","c","t"," ","a","s","s","e","s","s","m","e","n","t">> >>,
    << <<"c","o","n","s","e","n","t">>,
       <<"t","r","a","n","s","p","a","r","e","n">>,
       <<"p","u","b","l","i","c"," ","n","o","t","i","c","e">> >>,
    << <<"b","i","a","s">>,
       <<"f","a","i","r","n","e","s","s"," ","t","e","s","t","i","n","g">>,
       <<"i","n","d","e","p","e","n","d","e","n","t"," ","t","e","s","t","i","n","g">> >>,
    << <<"a","c","c","u","r","a","c","y"," ","t","e","s","t","i","n","g">>,
       <<"p","i","l","o","t">>,
       <<"v","a","l","i","d","a","t","e">> >>,
    << <<"d","a","t","a"," ","m","i","n","i","m">>,
       <<"r","e","t","e","n","t","i","o","n">>,
       <<"d","e","l","e","t","e">> >>,
    << <<"s","e","c","u","r","i","t","y">>,
       <<"a","c","c","e","s","s"," ","c","o","n","t","r","o","l">>,
       <<"e","n","c","r","y","p","t","i","o","n">> >>,
    << <<"l","i","m","i","t","s">>,
       <<"w","h","e","r","e">>,
       <<"w","h","e","n">>,
       <<"p","o","l","i","c","y">>,
       <<"g","o","v","e","r","n","a","n","c","e">> >>
  >>

INDIVIDUAL_TERMS ==
  << <<"i","n","d","i","v","i","d","u","a","l">>,
     <<"p","e","o","p","l","e">>,
     <<"r","e","s","i","d","e","n","t">>,
     <<"p","e","r","s","o","n">>,
     <<"c","o","m","m","u","n","i","t","y">> >>

HARM_TERMS ==
  << <<"h","a","r","m">>,
     <<"s","t","r","e","s","s">>,
     <<"w","r","o","n","g","l","y">>,
     <<"m","i","s","i","d","e","n","t","i","f">>,
     <<"d","i","s","c","r","i","m","i","n">>,
     <<"u","n","f","a","i","r">>,
     <<"r","i","g","h","t","s">> >>

TRUST_TERMS ==
  << <<"t","r","u","s","t">>,
     <<"c","o","n","f","i","d","e","n","c","e">>,
     <<"p","u","b","l","i","c"," ","t","r","u","s","t">>,
     <<"r","e","p","u","t","a","t","i","o","n">>,
     <<"l","e","g","i","t","i","m","a","c","y">> >>

FAIRNESS_TERMS ==
  << <<"f","a","i","r","n","e","s","s">>,
     <<"d","i","s","c","r","i","m","i","n">>,
     <<"u","n","f","a","i","r">>,
     <<"e","q","u","a","l">> >>

KEY_TERMS ==
  << <<"g","d","p","r">>,
     <<"d","p","i","a">>,
     <<"d","a","t","a"," ","p","r","o","t","e","c","t","i","o","n">>,
     <<"p","r","i","v","a","c","y">>,
     <<"c","o","n","s","e","n","t">>,
     <<"b","i","a","s">>,
     <<"f","a","i","r","n","e","s","s">>,
     <<"t","r","a","n","s","p","a","r","e","n","c","y">> >>

LEGAL_TAG_TERMS ==
  << <<"c","o","n","s","e","n","t">>,
     <<"p","r","i","v","a","c","y">>,
     <<"d","a","t","a"," ","p","r","o","t","e","c","t","i","o","n">> >>

HEADING_TERMS ==
  << <<"f","a","i","l","u","r","e"," ","1">>,
     <<"f","a","i","l","u","r","e"," ","2">> >>

NUMBER_TERMS ==
  << <<"1",")">>,
     <<"2",")">>,
     <<"3",")">> >>

SECTION_TERMS ==
  << <<"k","e","y"," ","e","t","h","i","c","a","l">>,
     <<"w","h","y"," ","t","h","e","s","e"," ","f","a","i","l","u","r","e","s">>,
     <<"w","h","a","t"," ","s","h","o","u","l","d"," ","h","a","v","e">> >>

ACTION_WORDS ==
  << <<"a","c","t","i","o","n">>,
     <<"s","h","o","u","l","d">>,
     <<"m","u","s","t">>,
     <<"n","e","e","d"," ","t","o">>,
     <<"r","e","c","o","m","m","e","n","d">> >>

\* server.js: the tables that differ from part_001
ServerJs_failureThemes ==
  <<
    [key |-> "consent/transparency",
     hits |-> << <<"c","o","n","s","e","n","t">>,
                <<"t","r","a","n","s","p","a","r","e","n","t">>,
                <<"t","r","a","n","s","p","a","r","e","n","c","y">>,
                <<"i","n","f","o","r","m","e","d">>,
                <<"n","o","t","i","c","e">>,
                <<"p","u","b","l","i","c"," ","i","n","f","o","r","m","e","d">> >> ],
    [key |-> "gdpr/lawful basis",
     hits |-> << <<"g","d","p","r">>,
                <<"l","a","w","f","u","l">>,
                <<"l","a","w","f","u","l"," ","b","a","s","i","s">>,
                <<"d","a","t","a"," ","p","r","o","t","e","c","t","i","o","n">>,
                <<"d","p","a">>,
                <<"p","r","i","v","a","c","y">> >> ],
    [key |-> "bias/fairness",
     hits |-> << <<"b","i","a","s">>,
                <<"b","i","a","s","e","d">>,
                <<"f","a","i","r">>,
                <<"f","a","i","r","n","e","s","s">>,
                <<"d","i","s","c","r","i","m","i","n">>,
                <<"e","q","u","a","l">> >> ],
    [key |-> "accuracy/misidentification",
     hits |-> << <<"a","c","c","u","r">>,
                <<"m","i","s","i","d","e","n","t","i","f">>,
                <<"f","a","l","s","e"," ","p","o","s","i","t","i","v","e">>,
                <<"f","a","l","s","e"," ","n","e","g","a","t","i","v","e">>,
                <<"w","r","o","n","g","l","y">> >> ],
    [key |-> "security/storage",
     hits |-> << <<"s","e","c","u","r","e">>,
                <<"s","e","c","u","r","i","t","y">>,
                <<"s","t","o","r","e","d">>,
                <<"s","t","o","r","a","g","e">>,
                <<"b","r","e","a","c","h">>,
                <<"a","c","c","e","s","s"," ","c","o","n","t","r","o","l">> >> ],
    [key |-> "dPIA/governance",
     hits |-> << <<"d","p","i","a">>,
                <<"i","m","p","a","c","t"," ","a","s","s","e","s","s","m","e","n","t">>,
                <<"g","o","v","e","r","n","a","n","c","e">>,
                <<"o","v","e","r","s","i","g","h","t">>,
                <<"a","u","d","i","t">> >> ]
  >>

ServerJs_FAIRNESS_TERMS ==
  << <<"f","a","i","r","n","e","s","s">>,
     <<"d","i","s","c","r","i","m","i","n">>,
     <<"u","n","f","a","i","r">> >>

---------------------------------------------------------------------------
(* The action-marker regular expression                                     *)
(*   /\baction\b|\bshould\b|\bmust\b|\bneed to\b|\brecommend\b/gi           *)

\* \b at position p: exactly one of s[p-1], s[p] is a word character
WordBoundary(s, p) ==
  LET before == p > 1 /\ IsWordChar(s[p - 1])
      after == p <= Len(s) /\ IsWordChar(s[p])
  IN before # after

\* the alternative w matches at i, letters compared without case
AlternativeAt(s, i, w) ==
  /\ i + Len(w) - 1 <= Len(s)
  /\ \A j \in 1..Len(w) : toLowerChar(s[i + j - 1]) = w[j]
  /\ WordBoundary(s, i + Len(w))

\* the length matched at i by the first alternative that matches there, or 0
MatchLenAt(s, i) ==
  IF ~WordBoundary(s, i) THEN 0
  ELSE LET ok == {k \in 1..Len(ACTION_WORDS) : AlternativeAt(s, i, ACTION_WORDS[k])}
       IN IF ok = {} THEN 0 ELSE Len(ACTION_WORDS[Min(ok)])

\* the global scan: the leftmost match at or after `from`, then on from its end
RECURSIVE CountMatchesFrom(_, _, _)
CountMatchesFrom(s, starts, from) ==
  LET later == {i \in starts : i >= from}
  IN IF later = {} THEN 0
     ELSE 1 + CountMatchesFrom(s, starts, Min(later) + MatchLenAt(s, Min(later)))

\* the count as it would be without the \b anchors: every place where one of
\* the words begins, inside a longer word or not
countActionMarkers_WithoutBoundaries(s) ==
  Cardinality({i \in 1..Len(s) :
                 \E k \in 1..Len(ACTION_WORDS) :
                   LET w == ACTION_WORDS[k]
                   IN /\ i + Len(w) - 1 <= Len(s)
                      /\ \A j \in 1..Len(w) : toLowerChar(s[i + j - 1]) = w[j]})

\* (answerText.match(re) || []).length
countActionMarkers(s) ==
  CountMatchesFrom(s, {i \in 1..Len(s) : MatchLenAt(s, i) > 0}, 1)

---------------------------------------------------------------------------
(* The deterministic marker of part_001 *)

GATE_MESSAGE_HEAD == "Please add to your answer.\n"
GATE_MESSAGE_REST ==
  "This response is too short to demonstrate evaluation.\nAim for 100-250 words and address all parts of the question."
GATE_MESSAGE == GATE_MESSAGE_HEAD \o GATE_MESSAGE_REST

NOTE_FAILURES_ONE == "Failures: Identify two clear ethical/legal failures (not just one)."
NOTE_FAILURES_NONE == "Failures: Identify two clear ethical/legal failures."
NOTE_IMPACT == "Impact: Explain why the failures mattered (harm to people and/or trust/fairness)."
NOTE_RECS_VAGUE == "Recommendations: Give two practical actions the council should take (not vague)."
NOTE_RECS_NONE == "Recommendations: Provide two practical actions the council should take."
NOTE_LANGUAGE == "Language: Use at least one key term (e.g., GDPR, consent, bias, transparency, DPIA)."
NOTE_STRUCTURE == "Structure: Use the template headings so your evaluation is easy to follow."
NOTE_SHORT == "Length: Aim for 100-250 words (yours is a bit short)."
NOTE_LONG == "Length: Aim for 100-250 words (yours is a bit long)."
COMMENDATION ==
  "Strong response -- you identified key issues, explained impact, and gave practical improvements."

STRENGTH_FAILURES == "You identified at least two relevant ethical/legal failures."
STRENGTH_IMPACT == "You explained why the issues matter for people and/or public trust."
STRENGTH_RECS == "You suggested practical actions to improve responsible use of AI."
STRENGTH_TERMS == "You used appropriate ethical/legal terms (e.g., consent, bias, GDPR)."
STRENGTH_STRUCTURE ==
  "Your response followed a clear structure, which makes your evaluation easy to follow."

\* the gated result as it would be if it still carried the model answer
gatedResult_WithModelAnswer(n) ==
  [gated |-> TRUE, wordCount |-> n, message |-> GATE_MESSAGE,
   score |-> Null, feedback |-> Null, strengths |-> Null, tags |-> Null,
   grid |-> Null, framework |-> Null, modelAnswer |-> Some(MODEL_ANSWER)]

\* the result returned under the hard gate
gatedResult(n) ==
  [gated |-> TRUE, wordCount |-> n, message |-> GATE_MESSAGE,
   score |-> Null, feedback |-> Null, strengths |-> Null, tags |-> Null,
   grid |-> Null, framework |-> Null, modelAnswer |-> Null]

\* the loop as it would be if it counted every hit, not every theme
countThemes_CountsEveryHit(t, themes) ==
  Cardinality({kh \in UNION {{<<k, h>> : h \in 1..Len(themes[k].hits)} : k \in 1..Len(themes)} :
                 hasAny(t, <<themes[kh[1]].hits[kh[2]]>>)})

\* the loop over a table of themes: how many have one of their hits in t
countThemes(t, themes) ==
  Cardinality({k \in 1..Len(themes) : hasAny(t, themes[k].hits)})

\* the loop over the recommendation groups
countGroups(t, groups) ==
  Cardinality({k \in 1..Len(groups) : hasAny(t, groups[k])})

\* the failures branch as it would be with > 2 for the top level
failuresCriterion_MoreThanTwo(themesFound) ==
  IF themesFound > 2 THEN [add |-> 3, level |-> 2, notes |-> <<>>]
  ELSE IF themesFound >= 1 THEN [add |-> 1, level |-> 1, notes |-> <<NOTE_FAILURES_ONE>>]
  ELSE [add |-> 0, level |-> 0, notes |-> <<NOTE_FAILURES_NONE>>]

\* the failures branch as it would be without its middle case
failuresCriterion_OneThemeIsMissing(themesFound) ==
  IF themesFound >= 2 THEN [add |-> 3, level |-> 2, notes |-> <<>>]
  ELSE [add |-> 0, level |-> 0, notes |-> <<NOTE_FAILURES_NONE>>]

\* 1) Failures (3 marks): what the branch adds to score, the level, the note pushed
failuresCriterion(themesFound) ==
  IF themesFound >= 2 THEN [add |-> 3, level |-> 2, notes |-> <<>>]
  ELSE IF themesFound = 1 THEN [add |-> 1, level |-> 1, notes |-> <<NOTE_FAILURES_ONE>>]
  ELSE [add |-> 0, level |-> 0, notes |-> <<NOTE_FAILURES_NONE>>]

\* the impact branch as it would be without the floor: nothing detected, nothing added
impactCriterion_NoFloor(mentionsIndividuals, mentionsHarm, mentionsTrust, mentionsFairness) ==
  IF (mentionsIndividuals /\ mentionsHarm) /\ (mentionsTrust \/ mentionsFairness)
  THEN [add |-> 3, level |-> 2, notes |-> <<>>]
  ELSE IF (mentionsIndividuals /\ mentionsHarm) \/ mentionsTrust \/ mentionsFairness
  THEN [add |-> 2, level |-> 1, notes |-> <<>>]
  ELSE [add |-> 0, level |-> 0, notes |-> <<NOTE_IMPACT>>]

\* 2) Impact (3 marks)
impactCriterion(mentionsIndividuals, mentionsHarm, mentionsTrust, mentionsFairness) ==
  IF (mentionsIndividuals /\ mentionsHarm) /\ (mentionsTrust \/ mentionsFairness)
  THEN [add |-> 3, level |-> 2, notes |-> <<>>]
  ELSE IF (mentionsIndividuals /\ mentionsHarm) \/ mentionsTrust \/ mentionsFairness
  THEN [add |-> 2, level |-> 1, notes |-> <<>>]
  ELSE [add |-> 1, level |-> 0, notes |-> <<NOTE_IMPACT>>]

\* 3) Recommendations (2 marks)
recsCriterion(recHits, actionMarkers) ==
  IF recHits >= 2 /\ actionMarkers >= 2 THEN [add |-> 2, level |-> 2, notes |-> <<>>]
  ELSE IF recHits >= 1 THEN [add |-> 1, level |-> 1, notes |-> <<NOTE_RECS_VAGUE>>]
  ELSE [add |-> 0, level |-> 0, notes |-> <<NOTE_RECS_NONE>>]

\* the language branch as it would be if a used term gave level 1
languageCriterion_Developing(usesTerms) ==
  IF usesTerms THEN [add |-> 1, level |-> 1, notes |-> <<>>]
  ELSE [add |-> 0, level |-> 0, notes |-> <<NOTE_LANGUAGE>>]

\* 4) Ethical/legal language (1 mark)
languageCriterion(usesTerms) ==
  IF usesTerms THEN [add |-> 1, level |-> 2, notes |-> <<>>]
  ELSE [add |-> 0, level |-> 0, notes |-> <<NOTE_LANGUAGE>>]

\* the structure branch as it would be if a missing structure were level 0
structureCriterion_MissingIsLevel0(hasStructure) ==
  IF hasStructure THEN [add |-> 1, level |-> 2, notes |-> <<>>]
  ELSE [add |-> 0, level |-> 0, notes |-> <<NOTE_STRUCTURE>>]

\* 5) Structure (1 mark)
structureCriterion(hasStructure) ==
  IF hasStructure THEN [add |-> 1, level |-> 2, notes |-> <<>>]
  ELSE [add |-> 0, level |-> 1, notes |-> <<NOTE_STRUCTURE>>]

\* hasStructure: headings, or enumerated markers, or section phrases
detectStructure(t) ==
  hasAny(t, HEADING_TERMS) \/ hasAny(t, NUMBER_TERMS) \/ hasAny(t, SECTION_TERMS)

\* the guidance as it would be without its second if
lengthNotes_NeverLong(n) ==
  IF n < TARGET_MIN_WORDS THEN <<NOTE_SHORT>> ELSE <<>>

\* the guidance as it would be with <= for the lower target
lengthNotes_ShortAtTarget(n) ==
  (IF n <= TARGET_MIN_WORDS THEN <<NOTE_SHORT>> ELSE <<>>)
  \o (IF n > TARGET_MAX_WORDS THEN <<NOTE_LONG>> ELSE <<>>)

\* Word-range guidance (not scored): two independent ifs
lengthNotes(n) ==
  (IF n < TARGET_MIN_WORDS THEN <<NOTE_SHORT>> ELSE <<>>)
  \o (IF n > TARGET_MAX_WORDS THEN <<NOTE_LONG>> ELSE <<>>)

\* the clamp as it would be with a bound one too low
clampScore_BoundTooLow(score) == Clamp(0, MAX_SCORE - 1, score)

\* Clamp score
clampScore(score) == Clamp(0, MAX_SCORE, score)

\* strengths: one push per true condition, in this order
buildStrengths(failuresLevel, impactLevel, recsLevel, usesTerms, hasStructure) ==
  (IF failuresLevel >= 2 THEN <<STRENGTH_FAILURES>> ELSE <<>>)
  \o (IF impactLevel >= 1 THEN <<STRENGTH_IMPACT>> ELSE <<>>)
  \o (IF recsLevel >= 1 THEN <<STRENGTH_RECS>> ELSE <<>>)
  \o (IF usesTerms THEN <<STRENGTH_TERMS>> ELSE <<>>)
  \o (IF hasStructure THEN <<STRENGTH_STRUCTURE>> ELSE <<>>)

\* the slice as it would be with slice(-3): the last three
strengthsTop_LastThree(strengths) ==
  SubSeq(strengths, IF Len(strengths) < 3 THEN 1 ELSE Len(strengths) - 2, Len(strengths))

\* strengths.slice(0, 3)
strengthsTop(strengths) == SubSeq(strengths, 1, IF Len(strengths) < 3 THEN Len(strengths) ELSE 3)

\* the tags as they would be if Ethical awareness looked at the failures level only
buildTags_EthicalFromFailures(t, failuresLevel, impactLevel, recsLevel, legalLevel, structureLevel) ==
  << [name |-> "Ethical awareness", status |-> tagStatus(failuresLevel)],
     [name |-> "Legal awareness",
      status |-> tagStatus(IF legalLevel >= 2 THEN 2
                           ELSE IF hasAny(t, LEGAL_TAG_TERMS) THEN 1 ELSE 0)],
     [name |-> "Impact evaluation",
      status |-> tagStatus(IF impactLevel >= 2 THEN 2 ELSE IF impactLevel = 1 THEN 1 ELSE 0)],
     [name |-> "Practical judgement",
      status |-> tagStatus(IF recsLevel >= 2 THEN 2 ELSE IF recsLevel = 1 THEN 1 ELSE 0)],
     [name |-> "Structure & clarity",
      status |-> tagStatus(IF structureLevel >= 2 THEN 2
                           ELSE IF structureLevel = 1 THEN 1 ELSE 0)] >>

\* the 5 fixed tags
buildTags(t, failuresLevel, impactLevel, recsLevel, legalLevel, structureLevel) ==
  << [name |-> "Ethical awareness",
      status |-> tagStatus(Min({2, Max({failuresLevel, impactLevel})}))],
     [name |-> "Legal awareness",
      status |-> tagStatus(IF legalLevel >= 2 THEN 2
                           ELSE IF hasAny(t, LEGAL_TAG_TERMS) THEN 1 ELSE 0)],
     [name |-> "Impact evaluation",
      status |-> tagStatus(IF impactLevel >= 2 THEN 2 ELSE IF impactLevel = 1 THEN 1 ELSE 0)],
     [name |-> "Practical judgement",
      status |-> tagStatus(IF recsLevel >= 2 THEN 2 ELSE IF recsLevel = 1 THEN 1 ELSE 0)],
     [name |-> "Structure & clarity",
      status |-> tagStatus(IF structureLevel >= 2 THEN 2
                           ELSE IF structureLevel = 1 THEN 1 ELSE 0)] >>

\* the grid as it would be if the ethical row followed its tag: the larger of
\* the failures level and the impact level
buildGrid_EthicalFromMax(failuresLevel, impactLevel, recsLevel, legalLevel, usesTerms, structureLevel) ==
  [ethical |-> statusFromLevel(Max({failuresLevel, impactLevel})),
   impact |-> statusFromLevel(IF impactLevel >= 2 THEN 2 ELSE IF impactLevel = 1 THEN 1 ELSE 0),
   legal |-> statusFromLevel(IF legalLevel >= 2 THEN 2 ELSE IF usesTerms THEN 1 ELSE 0),
   recs |-> statusFromLevel(recsLevel),
   structure |-> statusFromLevel(structureLevel)]

\* the grid of 5 rows
buildGrid(failuresLevel, impactLevel, recsLevel, legalLevel, usesTerms, structureLevel) ==
  [ethical |-> statusFromLevel(failuresLevel),
   impact |-> statusFromLevel(IF impactLevel >= 2 THEN 2 ELSE IF impactLevel = 1 THEN 1 ELSE 0),
   legal |-> statusFromLevel(IF legalLevel >= 2 THEN 2 ELSE IF usesTerms THEN 1 ELSE 0),
   recs |-> statusFromLevel(recsLevel),
   structure |-> statusFromLevel(structureLevel)]

\* Array.prototype.join
RECURSIVE join(_, _)
join(xs, sep) ==
  IF xs = <<>> THEN ""
  ELSE IF Len(xs) = 1 THEN xs[1]
  ELSE xs[1] \o sep \o join(Tail(xs), sep)

\* the feedback text
buildFeedback(notes) ==
  IF Len(notes) = 0 THEN COMMENDATION
  ELSE "To improve:\n- " \o join(notes, "\n- ")

\* One run of markEthicsResponse(answerText): its locals, and `result`, the
\* object it returns.  `scores` lists the value of the local `score` after each
\* of the five criteria, `notes` is the array of notes when the function returns.
Marking(text) ==
  LET n == wordCount(text)
  IN IF n < MIN_WORDS_GATE
     THEN [wc |-> n, gated |-> TRUE, result |-> gatedResult(n)]
     ELSE
       LET t == toLowerCase(text)
           themesFound == countThemes(t, FAILURE_THEMES)
           c1 == failuresCriterion(themesFound)
           mentionsIndividuals == hasAny(t, INDIVIDUAL_TERMS)
           mentionsHarm == hasAny(t, HARM_TERMS)
           mentionsTrust == hasAny(t, TRUST_TERMS)
           mentionsFairness == hasAny(t, FAIRNESS_TERMS)
           c2 == impactCriterion(mentionsIndividuals, mentionsHarm, mentionsTrust, mentionsFairness)
           recHits == countGroups(t, REC_THEMES)
           actionMarkers == countActionMarkers(text)
           c3 == recsCriterion(recHits, actionMarkers)
           usesTerms == hasAny(t, KEY_TERMS)
           c4 == languageCriterion(usesTerms)
           hasStructure == detectStructure(t)
           c5 == structureCriterion(hasStructure)
           s1 == 0 + c1.add
           s2 == s1 + c2.add
           s3 == s2 + c3.add
           s4 == s3 + c4.add
           s5 == s4 + c5.add
           notes == c1.notes \o c2.notes \o c3.notes \o c4.notes \o c5.notes \o lengthNotes(n)
           score == clampScore(s5)
           strengths == buildStrengths(c1.level, c2.level, c3.level, usesTerms, hasStructure)
       IN [wc |-> n, gated |-> FALSE,
           themesFound |-> themesFound, failuresLevel |-> c1.level,
           mentionsIndividuals |-> mentionsIndividuals, mentionsHarm |-> mentionsHarm,
           mentionsTrust |-> mentionsTrust, mentionsFairness |-> mentionsFairness,
           impactLevel |-> c2.level,
           recHits |-> recHits, actionMarkers |-> actionMarkers, recsLevel |-> c3.level,
           usesTerms |-> usesTerms, legalLevel |-> c4.level,
           hasStructure |-> hasStructure, structureLevel |-> c5.level,
           scores |-> <<s1, s2, s3, s4, s5>>, notes |-> notes, strengths |-> strengths,
           result |->
             [gated |-> FALSE, wordCount |-> n, score |-> Some(score),
              strengths |-> Some(strengthsTop(strengths)),
              tags |-> Some(buildTags(t, c1.level, c2.level, c3.level, c4.level, c5.level)),
              grid |-> Some(buildGrid(c1.level, c2.level, c3.level, c4.level,
                                      usesTerms, c5.level)),
              framework |-> Some(FRAMEWORK),
              feedback |-> Some(buildFeedback(notes)),
              modelAnswer |-> Some(MODEL_ANSWER)]]

\* markEthicsResponse(answerText)
markEthicsResponse(text) == Marking(text).result

---------------------------------------------------------------------------
(* The deterministic marker of server.js: score, feedback and model answer *)
(* only, with its own failure themes and its own impact rule               *)

\* the result returned under the hard gate
ServerJs_gatedResult(n) ==
  [gated |-> TRUE, wordCount |-> n, message |-> GATE_MESSAGE,
   score |-> Null, bands |-> Null, feedback |-> Null, modelAnswer |-> Null]

\* 1) Identify 2 ethical/legal failures (3 marks)
ServerJs_failuresCriterion(themesFound) ==
  IF themesFound >= 2 THEN [add |-> 3, notes |-> <<>>]
  ELSE IF themesFound = 1 THEN [add |-> 1, notes |-> <<NOTE_FAILURES_ONE>>]
  ELSE [add |-> 0, notes |-> <<NOTE_FAILURES_NONE>>]

\* 2) Evaluate impact (3 marks): fairness counts in the first branch only
ServerJs_impactCriterion(mentionsIndividuals, mentionsHarm, mentionsTrust, mentionsFairness) ==
  IF (mentionsIndividuals /\ mentionsHarm) /\ (mentionsTrust \/ mentionsFairness)
  THEN [add |-> 3, notes |-> <<>>]
  ELSE IF (mentionsIndividuals /\ mentionsHarm) \/ mentionsTrust
  THEN [add |-> 2, notes |-> <<>>]
  ELSE [add |-> 1, notes |-> <<NOTE_IMPACT>>]

\* 3) Recommendations (2 marks)
ServerJs_recsCriterion(recHits, actionMarkers) ==
  IF recHits >= 2 /\ actionMarkers >= 2 THEN [add |-> 2, notes |-> <<>>]
  ELSE IF recHits >= 1 THEN [add |-> 1, notes |-> <<NOTE_RECS_VAGUE>>]
  ELSE [add |-> 0, notes |-> <<NOTE_RECS_NONE>>]

\* 4) Use of ethical/legal language (1 mark)
ServerJs_languageCriterion(usesTerms) ==
  IF usesTerms THEN [add |-> 1, notes |-> <<>>]
  ELSE [add |-> 0, notes |-> <<NOTE_LANGUAGE>>]

\* 5) Clarity & structure (1 mark)
ServerJs_structureCriterion(hasStructure) ==
  IF hasStructure THEN [add |-> 1, notes |-> <<>>]
  ELSE [add |-> 0, notes |-> <<NOTE_STRUCTURE>>]

\* One run of server.js's markEthicsResponse(answerText): locals and result
ServerJs_Marking(text) ==
  LET n == wordCount(text)
  IN IF n < MIN_WORDS_GATE
     THEN [wc |-> n, gated |-> TRUE, result |-> ServerJs_gatedResult(n)]
     ELSE
       LET t == toLowerCase(text)
           themesFound == countThemes(t, ServerJs_failureThemes)
           c1 == ServerJs_failuresCriterion(themesFound)
           mentionsIndividuals == hasAny(t, INDIVIDUAL_TERMS)
           mentionsHarm == hasAny(t, HARM_TERMS)
           mentionsTrust == hasAny(t, TRUST_TERMS)
           mentionsFairness == hasAny(t, ServerJs_FAIRNESS_TERMS)
           c2 == ServerJs_impactCriterion(mentionsIndividuals, mentionsHarm,
                                          mentionsTrust, mentionsFairness)
           recHits == countGroups(t, REC_THEMES)
           actionMarkers == countActionMarkers(text)
           c3 == ServerJs_recsCriterion(recHits, actionMarkers)
           usesTerms == hasAny(t, KEY_TERMS)
           c4 == ServerJs_languageCriterion(usesTerms)
           hasStructure == detectStructure(t)
           c5 == ServerJs_structureCriterion(hasStructure)
           s1 == 0 + c1.add
           s2 == s1 + c2.add
           s3 == s2 + c3.add
           s4 == s3 + c4.add
           s5 == s4 + c5.add
           notes == c1.notes \o c2.notes \o c3.notes \o c4.notes \o c5.notes \o lengthNotes(n)
       IN [wc |-> n, gated |-> FALSE,
           themesFound |-> themesFound,
           mentionsIndividuals |-> mentionsIndividuals, mentionsHarm |-> mentionsHarm,
           mentionsTrust |-> mentionsTrust, mentionsFairness |-> mentionsFairness,
           recHits |-> recHits, actionMarkers |-> actionMarkers,
           usesTerms |-> usesTerms, hasStructure |-> hasStructure,
           scores |-> <<s1, s2, s3, s4, s5>>, notes |-> notes,
           result |->
             [gated |-> FALSE, wordCount |-> n, score |-> Some(clampScore(s5)),
              feedback |-> Some(buildFeedback(notes)),
              modelAnswer |-> Some(MODEL_ANSWER)]]

\* server.js: markEthicsResponse(answerText)
ServerJs_markEthicsResponse(text) == ServerJs_Marking(text).result

---------------------------------------------------------------------------
(* The learner's answers *)

\* what a learner may type: single trigger words, words that only contain a
\* trigger, sentences that satisfy one criterion, and a paragraph that
\* satisfies all five
Phrases ==
  << <<"b","i","a","s">>,
     <<"G","D","P","R">>,
     <<"u","n","f","a","i","r">>,
     <<"e","q","u","a","l">>,
     <<"t","r","u","s","t">>,
     <<"p","e","o","p","l","e">>,
     <<"1",")">>,
     <<"R","e","s","i","d","e","n","t","s"," ","w","e","r","e"," ","w","r","o","n","g","l","y"," ","s","t","o","p","p","e","d",".">>,
     <<"T","h","e"," ","c","o","u","n","c","i","l"," ","s","h","o","u","l","d"," ","r","u","n"," ","a"," ","p","i","l","o","t"," ","a","n","d"," ","s","h","o","u","l","d"," ","s","e","t"," ","l","i","m","i","t","s",".">>,
     <<"P","i","l","o","t"," ","l","i","m","i","t","s",":"," ","r","e","c","o","m","m","e","n","d","a","t","i","o","n","s",","," ","a","c","t","i","o","n","s",".">>,
     <<"1",")"," ","P","e","o","p","l","e"," ","w","e","r","e"," ","h","a","r","m","e","d"," ","a","n","d"," ","l","o","s","t"," ","t","r","u","s","t","."," ","T","h","e"," ","c","o","u","n","c","i","l"," ","s","h","o","u","l","d"," ","c","o","m","p","l","e","t","e"," ","a"," ","D","P","I","A"," ","a","n","d"," ","m","u","s","t"," ","s","e","e","k"," ","c","o","n","s","e","n","t",".">> >>

\* a word that triggers nothing
FillerWord == <<"x">>

\* how many phrases one answer combines
MaxPhrases == 2

\* filler lengths that put the word count on both sides of each threshold
FillerCounts == {MIN_WORDS_GATE - 1, TARGET_MIN_WORDS - 1, TARGET_MAX_WORDS}

\* text with one more word (or phrase) typed after it
TypeAfter(text, w) == IF text = <<>> THEN w ELSE text \o <<" ">> \o w

\* n filler words, separated by single spaces
FillerText(n) == [i \in 1..(2 * n - 1) |-> IF i % 2 = 1 THEN FillerWord[1] ELSE " "]

NoCall == [server |-> "none"]
NoCookie == [present |-> FALSE]
NoResponse == [route |-> "none"]

Init ==
  /\ answerText = <<>>
  /\ wordCountBox = 0
  /\ typed = {}
  /\ filler = 0
  /\ out = NoCall
  /\ now = 0
  /\ ticks = 0
  /\ jar = NoCookie
  /\ issued = {}
  /\ resp = NoResponse

serverVars == <<now, ticks, jar, issued, resp>>

---------------------------------------------------------------------------
(* Writing an answer and having it marked *)

\* client: updateWordCount, run on every input event
updateWordCount(text) == wc(text)

\* the learner types phrase i of the vocabulary (phrases in vocabulary order,
\* filler last, so that one answer is typed in one way only)
TypePhrase(i) ==
  /\ out = NoCall
  /\ filler = 0
  /\ Cardinality(typed) < MaxPhrases
  /\ \A j \in typed : j < i
  /\ answerText' = TypeAfter(answerText, Phrases[i])
  /\ wordCountBox' = updateWordCount(answerText')
  /\ typed' = typed \cup {i}
  /\ UNCHANGED <<filler, out>>
  /\ UNCHANGED serverVars

\* the learner pads the answer with n filler words
TypeFiller(n) ==
  /\ out = NoCall
  /\ filler = 0
  /\ answerText' = TypeAfter(answerText, FillerText(n))
  /\ wordCountBox' = updateWordCount(answerText')
  /\ filler' = n
  /\ UNCHANGED <<typed, out>>
  /\ UNCHANGED serverVars

\* part_001, POST /api/mark past requireSession:
\* markEthicsResponse(clampStr(req.body?.answerText, 6000))
MarkAnswer ==
  /\ out = NoCall
  /\ LET arg == clampStr(answerText, CLAMP_MAX)
     IN out' = [server |-> "part_001", answerText |-> arg, run |-> Marking(arg)]
  /\ UNCHANGED <<answerText, wordCountBox, typed, filler>>
  /\ UNCHANGED serverVars

\* server.js, POST /api/mark past requireSession
ServerJs_MarkAnswer ==
  /\ out = NoCall
  /\ LET arg == clampStr(answerText, CLAMP_MAX)
     IN out' = [server |-> "server.js", answerText |-> arg, run |-> ServerJs_Marking(arg)]
  /\ UNCHANGED <<answerText, wordCountBox, typed, filler>>
  /\ UNCHANGED serverVars

\* client: the Clear button empties the answer box and resets the feedback
ClearAnswer ==
  /\ answerText # <<>> \/ out # NoCall
  /\ answerText' = <<>>
  /\ wordCountBox' = updateWordCount(answerText')
  /\ typed' = {}
  /\ filler' = 0
  /\ out' = NoCall
  /\ UNCHANGED serverVars

NextMark ==
  \/ \E i \in 1..Len(Phrases) : TypePhrase(i)
  \/ \E n \in FillerCounts : TypeFiller(n)
  \/ MarkAnswer
  \/ ServerJs_MarkAnswer
  \/ ClearAnswer

SpecMark == Init /\ [][NextMark]_vars

---------------------------------------------------------------------------
(* Typing an answer character by character *)

\* how long a typed answer gets
MaxLen == 5

\* the keys: two letters, a space, a line break
TypedChars == {"a", "b", " ", "\n"}

\* the learner types one character; the input event runs updateWordCount
TypeChar(c) ==
  /\ out = NoCall
  /\ typed = {} /\ filler = 0
  /\ Len(answerText) < MaxLen
  /\ answerText' = answerText \o <<c>>
  /\ wordCountBox' = updateWordCount(answerText')
  /\ UNCHANGED <<typed, filler, out>>
  /\ UNCHANGED serverVars

NextWC ==
  \/ \E c \in TypedChars : TypeChar(c)
  \/ MarkAnswer
  \/ ClearAnswer

SpecWC == Init /\ [][NextWC]_vars

---------------------------------------------------------------------------
(* Revising a marked answer: a sentence with two trigger words is typed     *)
(* after it and the answer is submitted again                               *)

\* the places <<theme, hit>> of the trigger words in the failure-theme table
TriggerPlaces ==
  UNION {{<<k, h>> : h \in 1..Len(FAILURE_THEMES[k].hits)} : k \in 1..Len(FAILURE_THEMES)}

TriggerWord(p) == FAILURE_THEMES[p[1]].hits[p[2]]

\* the pairs of two different trigger words, the earlier one in the table first
TriggerPairs ==
  {ab \in TriggerPlaces \X TriggerPlaces :
     /\ ab[1][1] < ab[2][1] \/ (ab[1][1] = ab[2][1] /\ ab[1][2] < ab[2][2])
     /\ TriggerWord(ab[1]) # TriggerWord(ab[2])}

\* the sentence "<a> and <b>."
TriggerSentence(a, b) ==
  TriggerWord(a) \o <<" ", "a", "n", "d", " ">> \o TriggerWord(b) \o <<".">>

\* the filler of the answers that get revised: just enough to pass the gate
RevisedFillerCounts == {MIN_WORDS_GATE}

\* the phrases of the answers that get revised: "bias" (a failure theme, so
\* no revision follows), "trust", "people" and the sentence with two "should"
RevisedPhrases == {1, 5, 6, 9}

\* the learner, with the result of an ungated answer that matched no failure
\* theme on the page, types a sentence with the trigger words a and b after it
TypeTriggerSentence(a, b) ==
  /\ out # NoCall /\ out.server = "part_001"
  /\ DOMAIN out = {"server", "answerText", "run"}
  /\ ~out.run.gated
  /\ out.run.themesFound = 0
  /\ answerText' = TypeAfter(answerText, TriggerSentence(a, b))
  /\ wordCountBox' = updateWordCount(answerText')
  /\ out' = [server |-> out.server, answerText |-> out.answerText, run |-> out.run,
             revision |-> <<a, b>>]
  /\ UNCHANGED <<typed, filler>>
  /\ UNCHANGED serverVars

\* part_001, POST /api/mark for the revised answer; the earlier call is kept
MarkRevised ==
  /\ out # NoCall
  /\ DOMAIN out = {"server", "answerText", "run", "revision"}
  /\ LET arg == clampStr(answerText, CLAMP_MAX)
     IN out' = [server |-> "part_001", answerText |-> arg, run |-> Marking(arg),
                revision |-> out.revision,
                previous |-> [answerText |-> out.answerText, run |-> out.run]]
  /\ UNCHANGED <<answerText, wordCountBox, typed, filler>>
  /\ UNCHANGED serverVars

NextRevise ==
  \/ \E i \in RevisedPhrases : TypePhrase(i)
  \/ \E n \in RevisedFillerCounts : TypeFiller(n)
  \/ MarkAnswer
  \/ \E ab \in TriggerPairs : TypeTriggerSentence(ab[1], ab[2])
  \/ MarkRevised
  \/ ClearAnswer

SpecRevise == Init /\ [][NextRevise]_vars

---------------------------------------------------------------------------
(* The session cookie and the routes *)

\* process.env.ACCESS_CODE || "FETHINK-ETHICS1"
ACCESS_CODE == <<"F","E","T","H","I","N","K","-","E","T","H","I","C","S","1">>

\* parseInt(process.env.SESSION_MINUTES || "120", 10)
SESSION_MINUTES == 120

COOKIE_NAME == "fethink_ethics_session"

\* the server's secret, and a key that is not the secret
COOKIE_SECRET == "server secret"
OtherKey == "not the secret"

\* the codes a caller submits: the code, the code with whitespace around it,
\* nothing, whitespace only, the code in lower case, the code cut short
SubmittedCodes ==
  { ACCESS_CODE,
    <<" ">> \o ACCESS_CODE \o <<"\n">>,
    <<>>,
    <<" ", " ">>,
    toLowerCase(ACCESS_CODE),
    SubSeq(ACCESS_CODE, 1, Len(ACCESS_CODE) - 1) }

\* the decimal digits of a natural number
DigitChars == <<"0","1","2","3","4","5","6","7","8","9">>

RECURSIVE digitsOf(_)
digitsOf(n) ==
  IF n < 10 THEN <<DigitChars[n + 1]>>
  ELSE digitsOf(n \div 10) \o <<DigitChars[(n % 10) + 1]>>

RECURSIVE numberOf(_)
numberOf(ds) ==
  IF ds = <<>> THEN 0
  ELSE 10 * numberOf(SubSeq(ds, 1, Len(ds) - 1))
       + (CHOOSE d \in 0..9 : DigitChars[d + 1] = ds[Len(ds)])

\* JSON.stringify({ exp })
JSON_EXP_HEAD == <<"{", "\"", "e", "x", "p", "\"", ":">>
JSON_EXP_TAIL == <<"}">>

JSON_stringify(payload) == JSON_EXP_HEAD \o digitsOf(payload.exp) \o JSON_EXP_TAIL

\* JSON.parse(raw), for the texts of the shape {"exp":<digits>}; any other
\* text is one that JSON.parse throws on or that yields no numeric exp
JSON_parse(raw) ==
  LET h == Len(JSON_EXP_HEAD)
      ds == SubSeq(raw, h + 1, Len(raw) - 1)
  IN IF /\ Len(raw) >= h + 2
        /\ SubSeq(raw, 1, h) = JSON_EXP_HEAD
        /\ raw[Len(raw)] = "}"
        /\ \A i \in 1..Len(ds) : ds[i] \in Digits
        /\ (Len(ds) = 1 \/ ds[1] # "0")
     THEN [ok |-> TRUE, payload |-> [exp |-> numberOf(ds)]]
     ELSE [ok |-> FALSE]

\* the signature cookie-parser appends to a signed cookie: an HMAC of the value
\* under the secret, taken as a value that only (value, key) determines
Hmac(value, key) == [value |-> value, key |-> key]

\* res.cookie(COOKIE_NAME, value, { signed: true, ... })
signedCookie(value) ==
  [present |-> TRUE, name |-> COOKIE_NAME, value |-> value, sig |-> Hmac(value, COOKIE_SECRET)]

\* setSessionCookie(res): the cookie it sets at time t
setSessionCookie(t) ==
  LET exp == t + SESSION_MINUTES * 60
      payload == [exp |-> exp]
  IN signedCookie(JSON_stringify(payload))

\* req.signedCookies?.[COOKIE_NAME]: the value when the signature verifies,
\* else false (a bad signature) or undefined (no such cookie): <<>> for both
signedCookieValue(cookie) ==
  IF cookie.present /\ cookie.name = COOKIE_NAME
     /\ cookie.sig = Hmac(cookie.value, COOKIE_SECRET)
  THEN Some(cookie.value)
  ELSE Null

\* the expiry test as it would be with <=
notExpired_AtExpiry(t, exp) == t <= exp

\* now < payload.exp
notExpired(t, exp) == t < exp

\* isSessionValid(req), at time t
isSessionValid(cookie, t) ==
  LET raw == signedCookieValue(cookie)
  IN IF raw = Null \/ Value(raw) = <<>> THEN FALSE
     ELSE LET parsed == JSON_parse(Value(raw))
          IN IF ~parsed.ok THEN FALSE
             ELSE notExpired(t, parsed.payload.exp)

\* crypto.timingSafeEqual(a, b), for buffers of one length
timingSafeEqual(a, b) == \A i \in 1..Len(a) : a[i] = b[i]

\* how often the clock may advance, and how many sessions may be opened
MaxTicks == 2
MaxSessions == 1

\* the clock advances by a second, or by a second less than a session lasts
ClockSteps == {1, SESSION_MINUTES * 60 - 1}

\* the answers posted to /api/mark: two words, fifty words
ApiAnswers == {<<"n", "o", " ", "b", "i", "a", "s">>, FillerText(MIN_WORDS_GATE)}

\* a cookie like c, its expiry pushed a day on, the signature left as it was
Tampered(c) ==
  [c EXCEPT !.value = JSON_stringify([exp |-> JSON_parse(c.value).payload.exp + 86400])]

\* the cookies a request may carry: none, the browser's, any cookie the
\* server ever set (a caller may keep it), such a cookie tampered with, a
\* cookie signed with another key
RequestCookies ==
  {NoCookie, jar}
  \cup {h.cookie : h \in issued}
  \cup {Tampered(h.cookie) : h \in issued}
  \cup {[present |-> TRUE, name |-> COOKIE_NAME, value |-> JSON_stringify([exp |-> 99999]),
         sig |-> Hmac(JSON_stringify([exp |-> 99999]), OtherKey)]}

\* POST /api/unlock with body { code }
Unlock(submitted) ==
  /\ Cardinality(issued) < MaxSessions
  /\ LET code == trim(submitted)
         a == code
         b == ACCESS_CODE
     IN IF code = <<>>
        THEN /\ resp' = [route |-> "/api/unlock", at |-> now, status |-> 400,
                         body |-> [ok |-> FALSE, error |-> "missing_code"]]
             /\ UNCHANGED <<jar, issued>>
        ELSE IF Len(a) # Len(b) \/ ~timingSafeEqual(a, b)
        THEN /\ resp' = [route |-> "/api/unlock", at |-> now, status |-> 401,
                         body |-> [ok |-> FALSE, error |-> "incorrect_code"]]
             /\ UNCHANGED <<jar, issued>>
        ELSE /\ jar' = setSessionCookie(now)
             /\ issued' = issued \cup {[cookie |-> setSessionCookie(now),
                                        code |-> submitted, at |-> now]}
             /\ resp' = [route |-> "/api/unlock", at |-> now, status |-> 200,
                         body |-> [ok |-> TRUE]]
  /\ UNCHANGED <<now, ticks>>
  /\ UNCHANGED <<answerText, wordCountBox, typed, filler, out>>

\* POST /api/mark with body { answerText }: requireSession, then the handler
Mark(cookie, text) ==
  /\ IF ~isSessionValid(cookie, now)
     THEN resp' = [route |-> "/api/mark", at |-> now, cookie |-> cookie, status |-> 401,
                   engine |-> FALSE,
                   body |-> [ok |-> FALSE, error |-> "unauthorized"]]
     ELSE LET arg == clampStr(text, CLAMP_MAX)
              result == markEthicsResponse(arg)
          IN resp' = [route |-> "/api/mark", at |-> now, cookie |-> cookie, status |-> 200,
                      engine |-> TRUE,
                      body |-> [ok |-> TRUE, result |-> result]]
  /\ UNCHANGED <<now, ticks, jar, issued>>
  /\ UNCHANGED <<answerText, wordCountBox, typed, filler, out>>

\* POST /api/logout: res.clearCookie(COOKIE_NAME)
Logout ==
  /\ jar' = NoCookie
  /\ resp' = [route |-> "/api/logout", at |-> now, status |-> 200, body |-> [ok |-> TRUE]]
  /\ UNCHANGED <<now, ticks, issued>>
  /\ UNCHANGED <<answerText, wordCountBox, typed, filler, out>>

\* time passes
Tick(d) ==
  /\ ticks < MaxTicks
  /\ now' = now + d
  /\ ticks' = ticks + 1
  /\ UNCHANGED <<jar, issued, resp>>
  /\ UNCHANGED <<answerText, wordCountBox, typed, filler, out>>

Next ==
  \/ \E submitted \in SubmittedCodes : Unlock(submitted)
  \/ \E cookie \in RequestCookies : \E text \in ApiAnswers : Mark(cookie, text)
  \/ Logout
  \/ \E d \in ClockSteps : Tick(d)

Spec == Init /\ [][Next]_vars

---------------------------------------------------------------------------
(* What the claims speak of, computed from the answer itself *)

\* the number of maximal runs of non-whitespace characters in a text
WordRuns(text) ==
  Cardinality({i \in 1..Len(text) :
                 ~IsSpace(text[i]) /\ (i = 1 \/ IsSpace(text[i - 1]))})

\* the call recorded in `out` was made by the marker of part_001 / of server.js
MarkedBy(server) == out # NoCall /\ out.server = server

\* the call recorded in `out` got past the gate
Ungated(server) == MarkedBy(server) /\ WordRuns(out.answerText) >= 50

\* what the k-th criterion added to the local score
Added(k) == out.run.scores[k] - (IF k = 1 THEN 0 ELSE out.run.scores[k - 1])

\* a note was collected
Collected(note) == \E i \in 1..Len(out.run.notes) : out.run.notes[i] = note

\* the failure themes with a trigger in the lower-cased answer
ThemesPresent(text) ==
  LET t == toLowerCase(text)
  IN {k \in 1..Len(FAILURE_THEMES) :
        \E h \in 1..Len(FAILURE_THEMES[k].hits) : includes(t, FAILURE_THEMES[k].hits[h])}

\* the triggers (theme, trigger) in the lower-cased answer
TriggersPresent(text) ==
  LET t == toLowerCase(text)
  IN {kh \in UNION {{<<k, h>> : h \in 1..Len(FAILURE_THEMES[k].hits)} :
                      k \in 1..Len(FAILURE_THEMES)} :
        includes(t, FAILURE_THEMES[kh[1]].hits[kh[2]])}

\* the recommendation groups with a substring in the lower-cased answer
GroupsPresent(text) ==
  LET t == toLowerCase(text)
  IN {k \in 1..Len(REC_THEMES) :
        \E h \in 1..Len(REC_THEMES[k]) : includes(t, REC_THEMES[k][h])}

\* the places where one of the action words stands as a whole word, whatever its case
ActionWordPlaces(text) ==
  {i \in 1..Len(text) :
     \E k \in 1..Len(ACTION_WORDS) :
       LET w == ACTION_WORDS[k]
       IN /\ i + Len(w) - 1 <= Len(text)
          /\ \A j \in 1..Len(w) : toLowerChar(text[i + j - 1]) = w[j]
          /\ (i = 1 \/ ~IsWordChar(text[i - 1]))
          /\ (i + Len(w) > Len(text) \/ ~IsWordChar(text[i + Len(w)]))}

\* one of the needles is a substring of the lower-cased answer
Mentions(text, needles) ==
  LET t == toLowerCase(text)
  IN \E k \in 1..Len(needles) : includes(t, needles[k])

---------------------------------------------------------------------------
(* C1: every answer of fewer than 50 words, the empty one included, gets    *)
(* gated = true with its word count and the fixed message that begins       *)
(* "Please add to your answer.", and score, feedback, strengths, tags,      *)
(* grid, framework and modelAnswer are each null or absent.  Both markers.  *)
C1_GatedResultHidesEverything ==
  (out # NoCall /\ WordRuns(out.answerText) < 50) =>
    LET r == out.run.result
    IN /\ r.gated = TRUE
       /\ r.wordCount = WordRuns(out.answerText)
       /\ r.message = "Please add to your answer.\n" \o GATE_MESSAGE_REST
       /\ \A k \in {"score", "feedback", "strengths", "tags", "grid",
                    "framework", "modelAnswer"} : NullOrAbsent(r, k)

\* a non-empty answer of exactly 49 words was marked and gated
C1_Witness ==
  /\ MarkedBy("part_001")
  /\ WordRuns(out.answerText) = 49
  /\ out.answerText # <<>>
  /\ out.run.result.gated

(* C2: every answer of at least 50 words gets gated = false, an integer     *)
(* score in 0..10 equal to the plain sum of the five criterion points (the  *)
(* clamp changes nothing), the fixed MODEL_ANSWER and the fixed FRAMEWORK.  *)
C2_UngatedScoreAndDisclosure ==
  Ungated("part_001") =>
    LET r == out.run.result
    IN /\ r.gated = FALSE
       /\ Value(r.score) \in 0..10
       /\ Value(r.score) = Added(1) + Added(2) + Added(3) + Added(4) + Added(5)
       /\ Added(1) \in {0, 1, 3} /\ Added(2) \in {1, 2, 3} /\ Added(3) \in {0, 1, 2}
       /\ Added(4) \in {0, 1} /\ Added(5) \in {0, 1}
       /\ r.modelAnswer = Some(MODEL_ANSWER)
       /\ r.framework = Some(FRAMEWORK)

\* an answer that earns every point was marked: the sum reaches the clamp's bound
C2_Witness ==
  /\ Ungated("part_001")
  /\ Added(1) + Added(2) + Added(3) + Added(4) + Added(5) = 10
  /\ Value(out.run.result.score) = 10

\* the cookie of the last /api/mark request is the one that the unlock h set,
\* and at the time of the request fewer than SESSION_MINUTES * 60 seconds had
\* passed since h
LiveSession(h) ==
  /\ h.cookie = resp.cookie
  /\ h.at + SESSION_MINUTES * 60 > resp.at

\* /api/mark answered 200 {ok: true, result} and ran the marker
MarkAnswered ==
  /\ resp.status = 200
  /\ resp.engine
  /\ DOMAIN resp.body = {"ok", "result"} /\ resp.body.ok = TRUE

\* /api/mark answered 401 {ok: false, error: "unauthorized"} and ran nothing
MarkRefused ==
  /\ resp.status = 401
  /\ ~resp.engine
  /\ resp.body = [ok |-> FALSE, error |-> "unauthorized"]

C4_FailuresCriterion ==
  Ungated("part_001") =>
    LET n == Cardinality(ThemesPresent(out.answerText))
    IN /\ Len(FAILURE_THEMES) = 6
       /\ n >= 2 => /\ Added(1) = 3 /\ out.run.failuresLevel = 2
                    /\ ~Collected(NOTE_FAILURES_ONE) /\ ~Collected(NOTE_FAILURES_NONE)
       /\ n = 1 => /\ Added(1) = 1 /\ out.run.failuresLevel = 1
                   /\ Collected(NOTE_FAILURES_ONE) /\ ~Collected(NOTE_FAILURES_NONE)
       /\ n = 0 => /\ Added(1) = 0 /\ out.run.failuresLevel = 0
                   /\ Collected(NOTE_FAILURES_NONE) /\ ~Collected(NOTE_FAILURES_ONE)

\* an answer with two triggers of one and the same theme got 1 point
C4_Witness ==
  /\ Ungated("part_001")
  /\ Cardinality(TriggersPresent(out.answerText)) >= 2
  /\ Cardinality(ThemesPresent(out.answerText)) = 1
  /\ Added(1) = 1

(* C5: impact criterion, for every ungated answer and every combination of *)
(* the detectors individuals, harm, trust, fairness:                        *)
(* (individuals and harm) and (trust or fairness) adds 3, level Secure;     *)
(* else (individuals and harm) or trust or fairness adds 2, level           *)
(* Developing, no impact note; else adds exactly 1, level Missing, with the *)
(* impact note.  Stated of both markers: part_001 keeps the levels,         *)
(* server.js only the points and the note.                                  *)
C5_ImpactCriterion ==
  (Ungated("part_001") \/ Ungated("server.js")) =>
    LET both == out.run.mentionsIndividuals /\ out.run.mentionsHarm
        either == out.run.mentionsTrust \/ out.run.mentionsFairness
        level == IF both /\ either THEN 2 ELSE IF both \/ either THEN 1 ELSE 0
    IN /\ Added(2) = level + 1
       /\ Collected(NOTE_IMPACT) <=> level = 0
       /\ out.server = "part_001" => out.run.impactLevel = level

\* the impact rule of part_001 alone
C5_ImpactCriterionPart001 ==
  Ungated("part_001") =>
    LET both == out.run.mentionsIndividuals /\ out.run.mentionsHarm
        either == out.run.mentionsTrust \/ out.run.mentionsFairness
        level == IF both /\ either THEN 2 ELSE IF both \/ either THEN 1 ELSE 0
    IN /\ Added(2) = level + 1
       /\ Collected(NOTE_IMPACT) <=> level = 0
       /\ out.run.impactLevel = level

(* C6: recommendations criterion.  With g the number of the 7 groups that   *)
(* have a substring in the lower-cased answer and a the number of           *)
(* whole-word, case-insensitive occurrences of action, should, must,        *)
(* need to, recommend (each occurrence counts): g >= 2 and a >= 2 adds 2,   *)
(* level 2, no note; else g >= 1 adds 1, level 1, a note; else adds 0,      *)
(* level 0, a note.                                                         *)
C6_RecommendationsCriterion ==
  Ungated("part_001") =>
    LET g == Cardinality(GroupsPresent(out.answerText))
        a == Cardinality(ActionWordPlaces(out.answerText))
        noted == Collected(NOTE_RECS_VAGUE) \/ Collected(NOTE_RECS_NONE)
    IN /\ Len(REC_THEMES) = 7
       /\ IF g >= 2 /\ a >= 2
          THEN Added(3) = 2 /\ out.run.recsLevel = 2 /\ ~noted
          ELSE IF g >= 1
          THEN Added(3) = 1 /\ out.run.recsLevel = 1 /\ noted
          ELSE Added(3) = 0 /\ out.run.recsLevel = 0 /\ noted

\* the same action word twice, and two groups: the full 2 points
C6_Witness ==
  /\ Ungated("part_001")
  /\ Cardinality(GroupsPresent(out.answerText)) >= 2
  /\ Cardinality(ActionWordPlaces(out.answerText)) = 2
  /\ \A i \in ActionWordPlaces(out.answerText) : toLowerChar(out.answerText[i]) = "s"
  /\ Added(3) = 2

(* C7: terminology adds 1 with level 2 when a listed term is present, else  *)
(* adds 0 with level 0 and a note; structure adds 1 with level 2 when a     *)
(* heading, enumerated marker or section phrase is present, else adds 0     *)
(* with a note but level 1.  So structure level 0 and terminology level 1   *)
(* never occur.                                                             *)
C7_OnePointCriteria ==
  Ungated("part_001") =>
    LET terms == Mentions(out.answerText, KEY_TERMS)
        structure == \/ Mentions(out.answerText, HEADING_TERMS)
                     \/ Mentions(out.answerText, NUMBER_TERMS)
                     \/ Mentions(out.answerText, SECTION_TERMS)
    IN /\ IF terms
          THEN Added(4) = 1 /\ out.run.legalLevel = 2 /\ ~Collected(NOTE_LANGUAGE)
          ELSE Added(4) = 0 /\ out.run.legalLevel = 0 /\ Collected(NOTE_LANGUAGE)
       /\ IF structure
          THEN Added(5) = 1 /\ out.run.structureLevel = 2 /\ ~Collected(NOTE_STRUCTURE)
          ELSE Added(5) = 0 /\ out.run.structureLevel = 1 /\ Collected(NOTE_STRUCTURE)
       /\ out.run.structureLevel # 0
       /\ out.run.legalLevel # 1

\* an answer with a listed term and no structure: 1 point and 0 points, levels 2 and 1
C7_Witness ==
  /\ Ungated("part_001")
  /\ Added(4) = 1 /\ out.run.legalLevel = 2
  /\ Added(5) = 0 /\ out.run.structureLevel = 1

\* the maximal runs of whitespace in a text, as pairs <<first, last>>
WhitespaceRuns(text) ==
  {pq \in (1..Len(text)) \X (1..Len(text)) :
     /\ pq[1] <= pq[2]
     /\ \A i \in pq[1]..pq[2] : IsSpace(text[i])
     /\ (pq[1] = 1 \/ ~IsSpace(text[pq[1] - 1]))
     /\ (pq[2] = Len(text) \/ ~IsSpace(text[pq[2] + 1]))}

\* the text with the characters from p to q replaced by a single space
WithSingleSpace(text, p, q) ==
  SubSeq(text, 1, p - 1) \o <<" ">> \o SubSeq(text, q + 1, Len(text))

(* C8: wordCount(text) is 0 when the text is empty or only whitespace, and  *)
(* otherwise the number of maximal runs of non-whitespace characters; it is *)
(* unchanged by adding or removing leading or trailing whitespace and by    *)
(* replacing a run of whitespace with a single space; the client's wc gives *)
(* the same count as the server's wordCount for the same text.              *)
C8_WordCountCountsRuns ==
  /\ wordCountBox = WordRuns(answerText)
  /\ MarkedBy("part_001") =>
       LET t == out.answerText
           n == out.run.wc
       IN /\ n = WordRuns(t)
          /\ (\A i \in 1..Len(t) : IsSpace(t[i])) => n = 0
          /\ \A c \in SpaceChars :
               wordCount(<<c>> \o t) = n /\ wordCount(t \o <<c>>) = n
          /\ (t # <<>> /\ IsSpace(t[1])) => wordCount(Tail(t)) = n
          /\ (t # <<>> /\ IsSpace(t[Len(t)])) => wordCount(SubSeq(t, 1, Len(t) - 1)) = n
          /\ \A pq \in WhitespaceRuns(t) : wordCount(WithSingleSpace(t, pq[1], pq[2])) = n
          /\ t = answerText => wordCountBox = n

\* two words after a leading space, two whitespace characters between them
C8_Witness ==
  /\ MarkedBy("part_001")
  /\ out.run.wc = 2
  /\ Len(out.answerText) = 5
  /\ IsSpace(out.answerText[1])
  /\ IsSpace(out.answerText[3]) /\ IsSpace(out.answerText[4])
  /\ wordCountBox = 2

(* C9: feedback.  It is the commendation string exactly when no note was    *)
(* collected; otherwise "To improve:" followed by one "- " line per note in *)
(* the order failures, impact, recommendations, terminology, structure,     *)
(* length.  The length note is the "a bit short" one exactly when           *)
(* 50 <= wordCount < 100, the "a bit long" one exactly when wordCount > 250,*)
(* none for 100..250, and never both.                                       *)
ExpectedNotes ==
  LET n == WordRuns(out.answerText)
  IN (IF out.run.failuresLevel = 1 THEN <<NOTE_FAILURES_ONE>>
      ELSE IF out.run.failuresLevel = 0 THEN <<NOTE_FAILURES_NONE>> ELSE <<>>)
     \o (IF out.run.impactLevel = 0 THEN <<NOTE_IMPACT>> ELSE <<>>)
     \o (IF out.run.recsLevel = 1 THEN <<NOTE_RECS_VAGUE>>
         ELSE IF out.run.recsLevel = 0 THEN <<NOTE_RECS_NONE>> ELSE <<>>)
     \o (IF out.run.legalLevel = 0 THEN <<NOTE_LANGUAGE>> ELSE <<>>)
     \o (IF out.run.structureLevel = 1 THEN <<NOTE_STRUCTURE>> ELSE <<>>)
     \o (IF n >= 50 /\ n < 100 THEN <<NOTE_SHORT>>
         ELSE IF n > 250 THEN <<NOTE_LONG>> ELSE <<>>)

RECURSIVE BulletLines(_)
BulletLines(notes) ==
  IF notes = <<>> THEN "" ELSE "\n- " \o notes[1] \o BulletLines(Tail(notes))

C9_FeedbackText ==
  Ungated("part_001") =>
    LET feedback == Value(out.run.result.feedback)
    IN /\ out.run.notes = ExpectedNotes
       /\ (feedback = COMMENDATION) <=> (out.run.notes = <<>>)
       /\ out.run.notes # <<>> => feedback = "To improve:" \o BulletLines(ExpectedNotes)
       /\ ~(Collected(NOTE_SHORT) /\ Collected(NOTE_LONG))

\* an answer of 251 words: the "a bit long" note comes last, after a criterion note
C9_Witness ==
  /\ Ungated("part_001")
  /\ WordRuns(out.answerText) = 251
  /\ Len(out.run.notes) >= 2
  /\ out.run.notes[Len(out.run.notes)] = NOTE_LONG

(* C10: strengths.  The returned list is the first 3 elements (all, if      *)
(* fewer) of the list that has one sentence per true condition in the order *)
(* failures level Secure, impact level >= Developing, recommendations       *)
(* level >= Developing, terminology used, structure present.                *)
ExpectedStrengths ==
  LET flags == <<out.run.failuresLevel = 2, out.run.impactLevel >= 1,
                 out.run.recsLevel >= 1, out.run.usesTerms, out.run.hasStructure>>
      sentences == <<STRENGTH_FAILURES, STRENGTH_IMPACT, STRENGTH_RECS,
                     STRENGTH_TERMS, STRENGTH_STRUCTURE>>
      true == {k \in 1..5 : flags[k]}
      \* the k-th true condition, counted from the first
      nth(k) == CHOOSE c \in true : Cardinality({d \in true : d < c}) = k - 1
      kept == IF Cardinality(true) < 3 THEN Cardinality(true) ELSE 3
  IN [k \in 1..kept |-> sentences[nth(k)]]

C10_StrengthsAreTheFirstThree ==
  Ungated("part_001") =>
    LET strengths == Value(out.run.result.strengths)
    IN /\ strengths = ExpectedStrengths
       /\ Len(strengths) <= 3

\* all five conditions hold: the list is cut to the first three
C10_Witness ==
  /\ Ungated("part_001")
  /\ out.run.failuresLevel = 2 /\ out.run.impactLevel >= 1 /\ out.run.recsLevel >= 1
  /\ out.run.usesTerms /\ out.run.hasStructure
  /\ Value(out.run.result.strengths) = <<STRENGTH_FAILURES, STRENGTH_IMPACT, STRENGTH_RECS>>

---------------------------------------------------------------------------
(* Tags and grid *)

\* the tag status that stands for a level
StatusOfLevel(level) == IF level >= 2 THEN "ok" ELSE IF level = 1 THEN "mid" ELSE "bad"

\* the grid string that says the same as a tag status
RowOfStatus(status) ==
  IF status = "ok" THEN "[v] Secure" ELSE IF status = "mid" THEN "[~] Developing" ELSE "[x] Missing"

\* the grid string of a level
RowOfLevel(level) == RowOfStatus(StatusOfLevel(level))

GridRows == {"[v] Secure", "[~] Developing", "[x] Missing"}

\* the tags and the grid of the marked answer
Tags == Value(out.run.result.tags)
Grid == Value(out.run.result.grid)

(* C11: tags.  Every ungated result has exactly 5 tags, named Ethical       *)
(* awareness, Legal awareness, Impact evaluation, Practical judgement,      *)
(* Structure & clarity in this order; a status is ok for level >= 2, mid    *)
(* for 1, bad for 0, of max(failures, impact), terminology, impact,         *)
(* recommendations and structure level respectively.                        *)
C11_Tags ==
  Ungated("part_001") =>
    /\ Len(Tags) = 5
    /\ [k \in 1..5 |-> Tags[k].name] =
         <<"Ethical awareness", "Legal awareness", "Impact evaluation",
           "Practical judgement", "Structure & clarity">>
    /\ \A k \in 1..5 : DOMAIN Tags[k] = {"name", "status"}
    /\ Tags[1].status =
         StatusOfLevel(IF out.run.failuresLevel >= out.run.impactLevel
                       THEN out.run.failuresLevel ELSE out.run.impactLevel)
    /\ Tags[2].status = StatusOfLevel(out.run.legalLevel)
    /\ Tags[3].status = StatusOfLevel(out.run.impactLevel)
    /\ Tags[4].status = StatusOfLevel(out.run.recsLevel)
    /\ Tags[5].status = StatusOfLevel(out.run.structureLevel)

\* no failure theme but an impact at Developing: Ethical awareness takes the
\* larger level and is mid; structure is absent, so its tag is mid as well
C11_Witness ==
  /\ Ungated("part_001")
  /\ out.run.failuresLevel = 0 /\ out.run.impactLevel = 1
  /\ Tags[1].status = "mid"
  /\ Tags[2].status = "bad"
  /\ Tags[5].status = "mid"

(* C12, as stated: every grid row is one of the three status strings, and   *)
(* the rows ethical, recs and structure say what their tags (Ethical        *)
(* awareness, Practical judgement, Structure & clarity) say: Secure exactly *)
(* when ok, Developing exactly when mid, Missing exactly when bad.          *)
C12_GridFollowsTags_AsStated ==
  Ungated("part_001") =>
    /\ DOMAIN Grid = {"ethical", "impact", "legal", "recs", "structure"}
    /\ \A row \in DOMAIN Grid : Grid[row] \in GridRows
    /\ Grid.ethical = RowOfStatus(Tags[1].status)
    /\ Grid.recs = RowOfStatus(Tags[4].status)
    /\ Grid.structure = RowOfStatus(Tags[5].status)

(* C12, amended: every grid row is one of the three status strings; the     *)
(* rows recs and structure say what their tags say; the ethical row is the  *)
(* string of the failures level alone, so it says what the Ethical          *)
(* awareness tag says exactly when impact level <= failures level, and is   *)
(* lower than the tag otherwise.                                            *)
C12_GridFollowsTags ==
  Ungated("part_001") =>
    /\ DOMAIN Grid = {"ethical", "impact", "legal", "recs", "structure"}
    /\ \A row \in DOMAIN Grid : Grid[row] \in GridRows
    /\ Grid.recs = RowOfStatus(Tags[4].status)
    /\ Grid.structure = RowOfStatus(Tags[5].status)
    /\ Grid.ethical = RowOfLevel(out.run.failuresLevel)
    /\ (Grid.ethical = RowOfStatus(Tags[1].status))
         <=> (out.run.impactLevel <= out.run.failuresLevel)
    /\ out.run.impactLevel > out.run.failuresLevel =>
         Tags[1].status = StatusOfLevel(out.run.impactLevel)

\* the ethical row is Missing while the Ethical awareness tag is mid
C12_Witness ==
  /\ Ungated("part_001")
  /\ Grid.ethical = "[x] Missing"
  /\ Tags[1].status = "mid"
  /\ Grid.recs = RowOfStatus(Tags[4].status)

---------------------------------------------------------------------------
(* Revised answers *)

\* the answer in `out` is a revision: an ungated answer that matched no
\* failure theme, with the sentence of two different trigger words after it
RevisedFromNoTheme ==
  /\ MarkedBy("part_001")
  /\ "previous" \in DOMAIN out
  /\ WordRuns(out.previous.answerText) >= 50
  /\ ThemesPresent(out.previous.answerText) = {}
  /\ out.revision \in TriggerPairs
  /\ out.answerText =
       out.previous.answerText \o <<" ">> \o TriggerSentence(out.revision[1], out.revision[2])

\* the two trigger words belong to one theme / to two themes
SameTheme == out.revision[1][1] = out.revision[2][1]

(* C13, as stated: for every ungated answer that matches no failure theme,  *)
(* appending a sentence with two distinct trigger words of the failure      *)
(* theme tables raises the failures contribution from 0 to 3, whichever two *)
(* trigger words are chosen.                                                *)
C13_TwoTriggersRaiseFailures_AsStated ==
  RevisedFromNoTheme =>
    /\ out.previous.run.scores[1] = 0
    /\ out.run.scores[1] = 3

(* C13, amended: the same for two trigger words of two different themes.    *)
(* Two trigger words of one theme raise the contribution from 0 to 1 only.  *)
C13_TwoTriggersRaiseFailures ==
  RevisedFromNoTheme =>
    /\ out.previous.run.scores[1] = 0
    /\ out.previous.run.failuresLevel = 0
    /\ ~SameTheme => out.run.scores[1] = 3 /\ out.run.failuresLevel = 2
    /\ SameTheme => out.run.scores[1] = 1 /\ out.run.failuresLevel = 1

\* an answer with other detections but no failure theme was revised with the
\* trigger words of two themes
C13_Witness ==
  /\ RevisedFromNoTheme
  /\ typed # {}
  /\ ~SameTheme
  /\ out.run.scores[1] = 3
  /\ out.previous.run.scores[1] = 0

---------------------------------------------------------------------------
(* How the criteria hang together *)

\* no detector fires on the answer: no failure theme, no individuals, harm,
\* trust or fairness term, no recommendation group, no key term, no
\* structure marker
NothingDetected(text) ==
  /\ ThemesPresent(text) = {}
  /\ ~Mentions(text, INDIVIDUAL_TERMS) /\ ~Mentions(text, HARM_TERMS)
  /\ ~Mentions(text, TRUST_TERMS) /\ ~Mentions(text, FAIRNESS_TERMS)
  /\ GroupsPresent(text) = {}
  /\ ~Mentions(text, KEY_TERMS)
  /\ ~Mentions(text, HEADING_TERMS) /\ ~Mentions(text, NUMBER_TERMS)
  /\ ~Mentions(text, SECTION_TERMS)

(* C14: an ungated answer on which no detector fires gets score 1 (the      *)
(* impact floor alone), its notes contain the five criterion notes          *)
(* (failures, impact, recommendations, language, structure), and its        *)
(* feedback begins with "To improve:".                                      *)
C14_NothingDetected ==
  (Ungated("part_001") /\ NothingDetected(out.answerText)) =>
    /\ Value(out.run.result.score) = 1
    /\ Added(1) = 0 /\ Added(2) = 1 /\ Added(3) = 0 /\ Added(4) = 0 /\ Added(5) = 0
    /\ SubSeq(out.run.notes, 1, 5) =
         <<NOTE_FAILURES_NONE, NOTE_IMPACT, NOTE_RECS_NONE, NOTE_LANGUAGE, NOTE_STRUCTURE>>
    /\ Value(out.run.result.feedback) = "To improve:" \o BulletLines(out.run.notes)

\* 250 words that trigger nothing: exactly the five notes, no length note
C14_Witness ==
  /\ Ungated("part_001")
  /\ NothingDetected(out.answerText)
  /\ WordRuns(out.answerText) = 250
  /\ Len(out.run.notes) = 5
  /\ Value(out.run.result.score) = 1

\* every term of the list `terms` has one of the needles as a substring, so a
\* text that contains the term contains the needle
EachContainsOneOf(terms, needles) ==
  \A i \in 1..Len(terms) : \E j \in 1..Len(needles) : includes(terms[i], needles[j])

\* all trigger words of the failure themes, in table order
AllFailureTriggers ==
  LET places == TriggerPlaces
      nth(n) == CHOOSE p \in places :
                  Cardinality({q \in places :
                                 q[1] < p[1] \/ (q[1] = p[1] /\ q[2] < p[2])}) = n - 1
  IN [n \in 1..Cardinality(places) |-> TriggerWord(nth(n))]

(* C15: tag view and grid view of the legal and impact dimensions agree:    *)
(* the Legal awareness tag is ok exactly when grid.legal is Secure and bad  *)
(* exactly when it is Missing, likewise Impact evaluation and grid.impact;  *)
(* the Legal awareness tag is never mid and grid.legal never Developing.    *)
C15_LegalAndImpactViewsAgree ==
  Ungated("part_001") =>
    /\ (Tags[2].status = "ok") <=> (Grid.legal = "[v] Secure")
    /\ (Tags[2].status = "bad") <=> (Grid.legal = "[x] Missing")
    /\ (Tags[3].status = "ok") <=> (Grid.impact = "[v] Secure")
    /\ (Tags[3].status = "bad") <=> (Grid.impact = "[x] Missing")
    /\ (Tags[3].status = "mid") <=> (Grid.impact = "[~] Developing")
    /\ Tags[2].status # "mid"
    /\ Grid.legal # "[~] Developing"
    /\ EachContainsOneOf(LEGAL_TAG_TERMS, KEY_TERMS)
    /\ Mentions(out.answerText, LEGAL_TAG_TERMS) => out.run.legalLevel = 2

\* an answer with "consent" in it, a term both legal derivations test: both
\* views are at the top, and the impact views are at the top too
C15_Witness ==
  /\ Ungated("part_001")
  /\ Mentions(out.answerText, LEGAL_TAG_TERMS)
  /\ Tags[2].status = "ok" /\ Grid.legal = "[v] Secure"
  /\ Tags[3].status = "ok" /\ Grid.impact = "[v] Secure"

(* C16: if the terminology criterion is awarded or the fairness detector    *)
(* fires, at least one failure theme is matched: the failures level is at   *)
(* least Developing and the failures criterion adds at least 1.  No         *)
(* ungated result has the terminology point with failures level Missing.    *)
C16_TermsImplyAFailureTheme ==
  Ungated("part_001") =>
    /\ (out.run.usesTerms \/ out.run.mentionsFairness) =>
         /\ ThemesPresent(out.answerText) # {}
         /\ out.run.themesFound >= 1
         /\ out.run.failuresLevel >= 1
         /\ Added(1) >= 1
    /\ (Mentions(out.answerText, KEY_TERMS) \/ Mentions(out.answerText, FAIRNESS_TERMS)) =>
         Added(1) >= 1
    /\ ~(Added(4) = 1 /\ out.run.failuresLevel = 0)
    /\ EachContainsOneOf(KEY_TERMS, AllFailureTriggers)
    /\ EachContainsOneOf(FAIRNESS_TERMS, AllFailureTriggers)

\* a key term and nothing else of the failure tables: exactly one theme, 1 point
C16_Witness ==
  /\ Ungated("part_001")
  /\ out.run.usesTerms
  /\ Added(4) = 1
  /\ out.run.themesFound = 1
  /\ Added(1) = 1

(* C17: an ungated answer whose feedback is the commendation has failures,  *)
(* recommendations, terminology and structure at their top level, impact at *)
(* least Developing and 100 <= wordCount <= 250, so its score is 9 or 10;   *)
(* and every ungated answer with score 10 and 100 <= wordCount <= 250 gets  *)
(* the commendation.                                                        *)
C17_Commendation ==
  Ungated("part_001") =>
    LET r == out.run
        n == WordRuns(out.answerText)
        score == Value(r.result.score)
        feedback == Value(r.result.feedback)
    IN /\ feedback = COMMENDATION =>
            /\ r.failuresLevel = 2 /\ r.recsLevel = 2
            /\ r.legalLevel = 2 /\ r.structureLevel = 2
            /\ r.impactLevel >= 1
            /\ n >= 100 /\ n <= 250
            /\ r.result.wordCount = n
            /\ score \in {9, 10}
       /\ (score = 10 /\ n >= 100 /\ n <= 250) => feedback = COMMENDATION

\* the commendation was given, to an answer of 100 to 250 words with score 10
C17_Witness ==
  /\ Ungated("part_001")
  /\ Value(out.run.result.feedback) = COMMENDATION
  /\ Value(out.run.result.score) = 10
  /\ WordRuns(out.answerText) >= 100

====
